---------------------------- MODULE Spec2Model ----------------------------
(***************************************************************************)
(* A model of handybars: the path constructors and the path parser        *)
(* (src/src/lib.rs), the tokenizer (src/src/parse.rs) and Context::define, *)
(* get_value, append, merge, expand and render (src/src/context.rs).       *)
(*                                                                         *)
(* A template is a sequence of bytes; a byte is a one-character string.   *)
(* Indices are 0-based as in the source: At(s, i) is s[i], Slice(s, a, b)  *)
(* is s[a..b].                                                             *)
(***************************************************************************)
EXTENDS Integers, Sequences, FiniteSets, TLC

(***************************************************************************)
(* Bounds of the model.                                                    *)
(***************************************************************************)
\* a template is the concatenation of at most MaxPieces fragments
MaxPieces == 3
\* Tokenize::next is called at most MaxNoneCalls more times once it returned None
MaxNoneCalls == 2
\* a lone placeholder template has at most MaxPad spaces on either side of its path
MaxPad == 2
\* at most MaxCalls calls of define / get_value / append / merge are made on a context
MaxCalls == 2
\* a path string that is parsed has at most MaxPathLen bytes
MaxPathLen == 7
\* Variable::from_parts is given at most MaxParts parts
MaxParts == 3
MaxSegmentLen == 4

\* usize::MAX, the value of `self.chars.len() - 1` for an empty input when the
\* subtraction wraps (release build); the largest integer of the model
UsizeMax == 2147483647

(***************************************************************************)
(* Byte strings.                                                           *)
(***************************************************************************)
At(s, i) == s[i + 1]

Slice(s, from, to) == SubSeq(s, from + 1, to)

SliceFrom(s, from) == SubSeq(s, from + 1, Len(s))

\* u8::is_ascii_whitespace: space, tab, line feed, form feed, carriage return
AsciiWhitespace == {" ", "\t", "\n", "\f", "\r"}

\* the byte 0x60, which has no one-character TLA+ string
Backquote == "backquote"

ReservedPunctuation ==
    {"!", "\"", "#", "%", "&", "'", "(", ")", "*", "+", "|", ".", "/", ";", "<",
     "=", ">", "@", "[", "]", "\\", "^", Backquote, "{", "}", ",", "~"}

is_valid_identifier_ch(ch) == ~(ch \in AsciiWhitespace \/ ch \in ReservedPunctuation)

(***************************************************************************)
(* parse::Error and Result.                                                *)
(***************************************************************************)
\* Error::new((col, line), ty)
Error(col, line, ty) == [ty |-> ty, token |-> "", line |-> line, col |-> col]

InvalidCharacter(col, line, token) ==
    [ty |-> "InvalidCharacter", token |-> token, line |-> line, col |-> col]

\* Error::add_offset((col, line))
add_offset(e, col, line) == [e EXCEPT !.col = @ + col, !.line = @ + line]

Ok(v) == [ok |-> TRUE, val |-> v]

Err(e) == [ok |-> FALSE, err |-> e]

(***************************************************************************)
(* Variable (src/src/lib.rs).                                              *)
(***************************************************************************)
Single(name) == [kind |-> "Single", segs |-> <<name>>]

Segments(segs) == [kind |-> "Segments", segs |-> segs]

\* a failed assert!
Panic(message) == [ok |-> FALSE, panic |-> message]

\* str::contains(ch)
Contains(s, ch) == \E i \in 1..Len(s) : s[i] = ch

\* Variable::single
single(val) ==
    IF Contains(val, ".")
    THEN Panic("single cannot contain dot separator. Use parse if you want that")
    ELSE IF val = <<>>
         THEN Panic("cannot construct a variable with an empty string")
         ELSE Ok(Single(val))

\* mutant: only the first two parts are checked for emptiness
from_parts_checks_two(parts) ==
    IF parts = <<>>
    THEN Panic("iterator passed to Variable::from_parts has no elements")
    ELSE IF Len(parts) = 1 THEN single(parts[1])
    ELSE IF \E i \in 1..2 : parts[i] = <<>>
         THEN Panic("variable part cannot be empty")
         ELSE Ok(Segments(parts))

\* Variable::from_parts
from_parts(parts) ==
    IF parts = <<>>
    THEN Panic("iterator passed to Variable::from_parts has no elements")
    ELSE IF Len(parts) = 1 THEN single(parts[1])
    ELSE IF \E i \in 1..Len(parts) : parts[i] = <<>>
         THEN Panic("variable part cannot be empty")
         ELSE Ok(Segments(parts))

RECURSIVE SumLen(_)
SumLen(segs) == IF segs = <<>> THEN 0 ELSE Len(Head(segs)) + SumLen(Tail(segs))

\* Variable::len
VariableLen(var) ==
    IF var.kind = "Segments"
    THEN SumLen(var.segs) + (Len(var.segs) - 1)
    ELSE Len(var.segs[1])

\* mutant: the segments are written one after the other without the separator
RECURSIVE JoinDots_no_separator(_)
JoinDots_no_separator(segs) ==
    IF Len(segs) = 1 THEN segs[1] ELSE segs[1] \o JoinDots_no_separator(Tail(segs))

RECURSIVE JoinDots(_)
JoinDots(segs) ==
    IF Len(segs) = 1 THEN segs[1] ELSE segs[1] \o <<".">> \o JoinDots(Tail(segs))

\* impl Display for Variable
Display(var) == IF var.kind = "Segments" THEN JoinDots(var.segs) ELSE var.segs[1]

(***************************************************************************)
(* try_parse_variable_segment (src/src/parse.rs).                          *)
(***************************************************************************)
\* the first offset >= offset at which the scan of the segment stops, or Len(input)
RECURSIVE SegmentStop(_, _)
SegmentStop(input, offset) ==
    IF offset >= Len(input) THEN offset
    ELSE IF At(input, offset) = "\n" \/ ~is_valid_identifier_ch(At(input, offset))
         THEN offset
         ELSE SegmentStop(input, offset + 1)

\* mutant: a newline ends a segment as any other non-identifier byte does
try_parse_variable_segment_newline_ends(input) ==
    IF input = <<>> THEN Err(Error(0, 0, "EmptyVariableSegment"))
    ELSE LET offset == SegmentStop(input, 0) IN
         IF offset >= Len(input) THEN Ok(input)
         ELSE IF offset = 0
              THEN Err(Error(offset, 0, "EmptyVariableSegment"))
              ELSE Ok(Slice(input, 0, offset))

try_parse_variable_segment(input) ==
    IF input = <<>> THEN Err(Error(0, 0, "EmptyVariableSegment"))
    ELSE LET offset == SegmentStop(input, 0) IN
         IF offset >= Len(input) THEN Ok(input)
         ELSE IF At(input, offset) = "\n"
              THEN Err(Error(offset, 0, "NewlineInVariableSegment"))
              ELSE IF offset = 0
                   THEN Err(Error(offset, 0, "EmptyVariableSegment"))
                   ELSE Ok(Slice(input, 0, offset))

(***************************************************************************)
(* parse_with_terminator (src/src/lib.rs).                                 *)
(***************************************************************************)
RECURSIVE ValidLen(_, _)
ValidLen(chars, head) ==
    IF head < Len(chars)
       /\ (is_valid_identifier_ch(At(chars, head))
           \/ At(chars, head) = " " \/ At(chars, head) = ".")
    THEN ValidLen(chars, head + 1)
    ELSE head

\* mutant: one space at most is counted
CountSpaces_one_at_most(chars, head) ==
    IF head < Len(chars) /\ At(chars, head) = " " THEN 1 ELSE 0

\* chars[head..].iter().take_while(|v| **v == ' ').count()
RECURSIVE CountSpaces(_, _)
CountSpaces(chars, head) ==
    IF head < Len(chars) /\ At(chars, head) = " "
    THEN 1 + CountSpaces(chars, head + 1)
    ELSE 0

\* the block deciding SpaceInPath: scans chars[len..] over spaces up to a '.'
SpaceBeforeDot(chars, len, valid_len) ==
    LET spaces == CountSpaces(chars, len)
        stop == len + spaces
        found_space == spaces > 0
        found_dot == stop < Len(chars) /\ At(chars, stop) = "."
    IN (found_space \/ len = valid_len) /\ found_dot

RECURSIVE parse_with_terminator(_, _)
RECURSIVE SegmentLoop(_, _, _, _)

\* mutant: a '.' is stepped over without looking at what follows it
SegmentLoop_no_dot_check(chars, valid_len, segments, head) ==
    IF head = valid_len \/ At(chars, head) = " "
    THEN LET head2 == head + CountSpaces(chars, head) IN
         IF parse_with_terminator(SliceFrom(chars, head2), FALSE).ok
         THEN Err(Error(head2, 0, "TooManyVariablesInBlock"))
         ELSE IF Len(segments) = 1
              THEN Ok(Single(segments[1]))
              ELSE Ok(Segments(segments))
    ELSE LET start == IF At(chars, head) = "." THEN head + 1 ELSE head
             r == try_parse_variable_segment(SliceFrom(chars, start))
         IN IF ~r.ok THEN Err(add_offset(r.err, start, 0))
            ELSE SegmentLoop(chars, valid_len, Append(segments, r.val),
                             start + Len(r.val))

\* the `loop` of parse_with_terminator, from the state (segments, head)
SegmentLoop(chars, valid_len, segments, head) ==
    IF head = valid_len \/ At(chars, head) = " "
    THEN LET head2 == head + CountSpaces(chars, head) IN
         IF parse_with_terminator(SliceFrom(chars, head2), FALSE).ok
         THEN Err(Error(head2, 0, "TooManyVariablesInBlock"))
         ELSE IF Len(segments) = 1
              THEN Ok(Single(segments[1]))
              ELSE Ok(Segments(segments))
    ELSE IF At(chars, head) = "."
         THEN IF head + 1 = valid_len \/ At(chars, head + 1) = " "
              THEN Err(Error(head, 0, "EmptyVariableSegment"))
              ELSE SegmentLoop(chars, valid_len, segments, head + 1)
         ELSE LET r == try_parse_variable_segment(SliceFrom(chars, head)) IN
              IF ~r.ok THEN Err(add_offset(r.err, head, 0))
              ELSE SegmentLoop(chars, valid_len, Append(segments, r.val),
                               head + Len(r.val))

parse_with_terminator(s, error_if_invalid) ==
    LET chars == s
        valid_len == ValidLen(chars, 0)
    IN
    IF error_if_invalid /\ valid_len # Len(s)
    THEN Err(InvalidCharacter(valid_len, 0, At(chars, valid_len)))
    ELSE IF valid_len = 0
    THEN Err(Error(0, 0, "EmptyVariableSegment"))
    ELSE LET r == try_parse_variable_segment(chars) IN
         IF ~r.ok THEN r
         ELSE LET len == Len(r.val) IN
              IF SpaceBeforeDot(chars, len, valid_len)
              THEN Err(Error(len, 0, "SpaceInPath"))
              ELSE IF len = valid_len
                   THEN Ok(Single(r.val))
                   ELSE SegmentLoop(chars, valid_len, <<r.val>>, len)

\* mutant: the bare string is parsed as the inside of a placeholder is
from_str_terminator_allowed(s) == parse_with_terminator(s, FALSE)

\* impl FromStr for Variable
from_str(s) == parse_with_terminator(s, TRUE)

(***************************************************************************)
(* parse_template_inner (src/src/parse.rs).                                *)
(* Returns None, [some |-> TRUE, ok |-> FALSE, err] or                     *)
(* [some |-> TRUE, ok |-> TRUE, var, len].                                 *)
(***************************************************************************)
None == [some |-> FALSE]

\* the first head' >= head, head' < Len(input) - 1, with input[head'..head'+2] = "}}",
\* or -1 when the while loop runs out
RECURSIVE FindEnd(_, _)
FindEnd(input, head) ==
    IF head < Len(input) - 1
    THEN IF At(input, head) = "}" /\ At(input, head + 1) = "}"
         THEN head
         ELSE FindEnd(input, head + 1)
    ELSE -1

\* parse_template_inner after its leading spaces: head is the offset of the path
ParseInnerAt(input, head) ==
    LET r == parse_with_terminator(SliceFrom(input, head), FALSE) IN
    IF ~r.ok
    THEN IF r.err.ty = "EmptyVariableSegment" /\ r.err.line = 0 /\ r.err.col = 0
         THEN None
         ELSE [some |-> TRUE, ok |-> FALSE, err |-> add_offset(r.err, head, 0)]
    ELSE LET end == FindEnd(input, head + VariableLen(r.val)) IN
         IF end >= 0
         THEN [some |-> TRUE, ok |-> TRUE, var |-> r.val, len |-> end + 2]
         ELSE None

\* mutant: the leading spaces of the block are not skipped
parse_template_inner_no_skip(input) == ParseInnerAt(input, 0)

parse_template_inner(input) == ParseInnerAt(input, CountSpaces(input, 0))

(***************************************************************************)
(* Tokenize (src/src/parse.rs).  The struct is the record                  *)
(* [head, tail, row, col, hit_error, var_next]; chars is kept apart.       *)
(***************************************************************************)
NoVar == [some |-> FALSE]

SomeVar(v) == [some |-> TRUE, var |-> v]

\* Tokenize::new
TokenizeNew ==
    [head |-> 0, tail |-> 0, row |-> 0, col |-> 0, hit_error |-> FALSE,
     var_next |-> NoVar]

\* what one call of next hands back: Option<Result<Token>>, or a panic
RetNone == [kind |-> "None"]

RetStr(s) == [kind |-> "Str", text |-> s]

RetVariable(v) == [kind |-> "Variable", var |-> v]

RetErr(e) == [kind |-> "Err", err |-> e]

RetPanic == [kind |-> "Panic"]

\* a call of next: the struct after it, what it returned, and prev_head when the
\* call recognised a placeholder (-1 otherwise)
Outcome(t, ret, at) == [tk |-> t, ret |-> ret, at |-> at]

\* `self.chars.len() - 1` in usize: for len = 0 the subtraction overflows, which
\* panics with overflow checks and wraps to usize::MAX without
LenMinusOne(len) == IF len > 0 THEN len - 1 ELSE UsizeMax

\* the two exits `if self.tail < / != self.chars.len() - 1 { .. Str(chars[tail..]) }`
FlushTail(chars, t, pending) ==
    IF pending
    THEN Outcome([t EXCEPT !.tail = LenMinusOne(Len(chars))],
                 RetStr(SliceFrom(chars, t.tail)), -1)
    ELSE Outcome(t, RetNone, -1)

\* mutant: the Str is returned and the variable is not kept for the next call
PlaceholderArm_no_lookahead(chars, t, var, len) ==
    LET t2 == [t EXCEPT !.head = t.head + len + 2,
                        !.tail = t.head + len + 2,
                        !.col = t.col + len + 2]
    IN IF t.tail # t.head
       THEN Outcome(t2, RetStr(Slice(chars, t.tail, t.head)), t.head)
       ELSE Outcome(t2, RetVariable(var), t.head)

\* the Some(Ok((var, len))) arm
PlaceholderArm(chars, t, var, len) ==
    LET t2 == [t EXCEPT !.head = t.head + len + 2,
                        !.tail = t.head + len + 2,
                        !.col = t.col + len + 2]
    IN IF t.tail # t.head
       THEN Outcome([t2 EXCEPT !.var_next = SomeVar(var)],
                    RetStr(Slice(chars, t.tail, t.head)), t.head)
       ELSE Outcome(t2, RetVariable(var), t.head)

\* mutant: the error is returned but the tokenizer does not halt
ErrorArm_no_halt(t, e) == Outcome(t, RetErr(e), -1)

\* the Some(Err(e)) arm
ErrorArm(t, e) == Outcome([t EXCEPT !.hit_error = TRUE], RetErr(e), -1)

\* the None arm: step over one byte
SkipByte(chars, t) ==
    IF At(chars, t.head) = "\n"
    THEN [t EXCEPT !.col = 0, !.row = t.row + 1, !.head = t.head + 1]
    ELSE [t EXCEPT !.col = t.col + 1, !.head = t.head + 1]

\* the `while self.head < self.chars.len()` loop and what follows it
RECURSIVE ScanLoop(_, _)
ScanLoop(chars, t) ==
    IF t.head < Len(chars)
    THEN IF At(chars, t.head) = "{"
         THEN IF t.head + 1 >= Len(chars)
              THEN Outcome(t, RetPanic, -1)   \* chars[head + 1] is out of bounds
              ELSE IF At(chars, t.head + 1) = "{"
                   THEN LET r == parse_template_inner(SliceFrom(chars, t.head + 2)) IN
                        IF ~r.some THEN ScanLoop(chars, SkipByte(chars, t))
                        ELSE IF r.ok THEN PlaceholderArm(chars, t, r.var, r.len)
                        ELSE ErrorArm(t, add_offset(r.err, t.col + 2, t.row))
                   ELSE ScanLoop(chars, SkipByte(chars, t))
         ELSE ScanLoop(chars, SkipByte(chars, t))
    ELSE FlushTail(chars, t, t.tail # LenMinusOne(Len(chars)))

\* Tokenize::next.  overflow_checks tells whether the build panics on the usize
\* underflow of `len - 1` (debug) or wraps (release).
TokenizeNext(chars, t, overflow_checks) ==
    IF t.var_next.some
    THEN Outcome([t EXCEPT !.var_next = NoVar], RetVariable(t.var_next.var), -1)
    ELSE IF t.hit_error THEN Outcome(t, RetNone, -1)
    ELSE IF t.head >= Len(chars)
         THEN IF Len(chars) = 0 /\ overflow_checks
              THEN Outcome(t, RetPanic, -1)
              ELSE FlushTail(chars, t, t.tail < LenMinusOne(Len(chars)))
         ELSE ScanLoop(chars, t)

\* Tokenize::new(input).collect(): what next returns, call after call, up to the
\* first None (or panic), from the struct t
RECURSIVE Collect(_, _)
Collect(chars, t) ==
    LET o == TokenizeNext(chars, t, FALSE) IN
    IF o.ret.kind \in {"None", "Panic"} THEN <<>>
    ELSE <<o.ret>> \o Collect(chars, o.tk)

(***************************************************************************)
(* Value, Object (src/src/value.rs) and Context (src/src/context.rs).      *)
(* An Object's `values` and a Context's `vars` are functions from names to *)
(* values.                                                                 *)
(***************************************************************************)
String(text) == [tag |-> "String", text |-> text]

Object(values) == [tag |-> "Object", values |-> values]

\* Object::new / Context::new: no entries
EmptyMap == [n \in {} |-> String(<<>>)]

\* mutant: the entry inserted is the only one kept
Insert_alone(map, name, value) == [n \in {name} |-> value]

\* BTreeMap::insert / HashMap::insert
Insert(map, name, value) ==
    [n \in DOMAIN map \cup {name} |-> IF n = name THEN value ELSE map[n]]

\* Object::property / HashMap::get, as an Option
Get(map, name) ==
    IF name \in DOMAIN map THEN [some |-> TRUE, val |-> map[name]] ELSE None

RECURSIVE Drill(_, _)

\* mutant: a string leaf met before the last segment is returned
Drill_stops_at_leaf(parent, rest) ==
    IF rest = <<>> THEN [some |-> TRUE, val |-> parent]
    ELSE IF parent.tag # "Object" THEN [some |-> TRUE, val |-> parent]
    ELSE LET next == Get(parent.values, Head(rest)) IN
         IF ~next.some THEN None ELSE Drill(next.val, Tail(rest))

\* the walk of get_value over segs[1..] from the value `parent`
Drill(parent, rest) ==
    IF rest = <<>> THEN [some |-> TRUE, val |-> parent]
    ELSE IF parent.tag # "Object" THEN None
    ELSE LET next == Get(parent.values, Head(rest)) IN
         IF ~next.some THEN None ELSE Drill(next.val, Tail(rest))

\* mutant: the walk does not skip the top-level segment
get_value_no_skip(vars, var) ==
    IF var.kind = "Segments"
    THEN LET top == Get(vars, var.segs[1]) IN
         IF ~top.some THEN None ELSE Drill(top.val, var.segs)
    ELSE Get(vars, var.segs[1])

\* Context::get_value
get_value(vars, var) ==
    IF var.kind = "Segments"
    THEN LET top == Get(vars, var.segs[1]) IN
         IF ~top.some THEN None ELSE Drill(top.val, Tail(var.segs))
    ELSE Get(vars, var.segs[1])

\* Object::add_property
add_property(values, name, value) ==
    IF Contains(name, ".")
    THEN Panic("property name may not contain dots")
    ELSE Ok(Insert(values, name, value))

\* the properties add_property leaves behind: nothing is inserted when its
\* assertion fails
AfterAddProperty(values, name, value) ==
    LET r == add_property(values, name, value) IN
        IF r.ok THEN r.val ELSE values

RECURSIVE DefineIn(_, _, _)

\* mutant: an object met on the path is replaced by a fresh one, as a leaf is
DefineIn_fresh_child(map, segs, value) ==
    IF Len(segs) = 1 THEN Insert(map, segs[1], value)
    ELSE Insert(map, segs[1], Object(DefineIn(EmptyMap, Tail(segs), value)))

\* force_object! along the segments of the path, then add_property(last, value)
DefineIn(map, segs, value) ==
    IF Len(segs) = 1 THEN AfterAddProperty(map, segs[1], value)
    ELSE LET old == Get(map, segs[1])
             child == IF old.some /\ old.val.tag = "Object"
                      THEN old.val.values ELSE EmptyMap
         IN Insert(map, segs[1], Object(DefineIn(child, Tail(segs), value)))

\* mutant: a single name bound to an object is rebound to the value
define_single_replaces(vars, var, value) ==
    IF var.kind = "Segments"
    THEN DefineIn(vars, var.segs, value)
    ELSE Insert(vars, var.segs[1], value)

\* Context::define
define(vars, var, value) ==
    IF var.kind = "Segments"
    THEN DefineIn(vars, var.segs, value)
    ELSE LET s == var.segs[1]
             old == Get(vars, s)
         IN IF old.some /\ old.val.tag = "Object"
            THEN Insert(vars, s, Object(AfterAddProperty(old.val.values, s, value)))
            ELSE Insert(vars, s, value)

\* Context::define does not return: the assertion of add_property fails
define_panics(vars, var, value) ==
    IF var.kind = "Segments"
    THEN ~add_property(EmptyMap, var.segs[Len(var.segs)], value).ok
    ELSE LET s == var.segs[1]
             old == Get(vars, s)
         IN old.some /\ old.val.tag = "Object"
               /\ ~add_property(old.val.values, s, value).ok

\* mutant: a name bound in both contexts keeps the receiver's value
append_keep_receiver(vars, other) ==
    [n \in DOMAIN vars \cup DOMAIN other |->
        IF n \in DOMAIN vars THEN vars[n] ELSE other[n]]

\* Context::append: self.vars.extend(other.vars)
append(vars, other) ==
    [n \in DOMAIN vars \cup DOMAIN other |->
        IF n \in DOMAIN other THEN other[n] ELSE vars[n]]

\* Context::merge
merge(vars, other) == append(vars, other)

MissingVariable(var) == [ty |-> "MissingVariable", var |-> var]

TriedToExpandObject(var) == [ty |-> "TriedToExpandObject", var |-> var]

\* impl From<parse::Error> for Error
ParseError(e) == [ty |-> "Parse", err |-> e]

\* mutant: an object-valued variable is reported as missing
expand_object_as_missing(vars, var) ==
    LET val == get_value(vars, var) IN
    IF ~val.some \/ val.val.tag = "Object" THEN Err(MissingVariable(var))
    ELSE Ok(val.val.text)

\* Context::expand
expand(vars, var) ==
    LET val == get_value(vars, var) IN
    IF ~val.some THEN Err(MissingVariable(var))
    ELSE IF val.val.tag = "Object" THEN Err(TriedToExpandObject(var))
    ELSE Ok(val.val.text)

\* one turn of the `for token in Tokenize::new(input)` loop of Context::render on
\* what next returned: the output and the result (Running while the loop goes on)
Running == [kind |-> "Running"]

RenderOk(out) == [kind |-> "Ok", text |-> out]

RenderErr(e) == [kind |-> "Err", err |-> e]

RenderPanic == [kind |-> "Panic"]

\* mutant: a variable that does not expand is skipped and the loop goes on
RenderToken_skip_failed(vars, out, ret) ==
    IF ret.kind = "None" THEN [output |-> out, result |-> RenderOk(out)]
    ELSE IF ret.kind = "Panic" THEN [output |-> out, result |-> RenderPanic]
    ELSE IF ret.kind = "Err"
    THEN [output |-> out, result |-> RenderErr(ParseError(ret.err))]
    ELSE IF ret.kind = "Str"
    THEN [output |-> out \o ret.text, result |-> Running]
    ELSE LET e == expand(vars, ret.var) IN
         IF e.ok THEN [output |-> out \o e.val, result |-> Running]
         ELSE [output |-> out, result |-> Running]

RenderToken(vars, out, ret) ==
    IF ret.kind = "None" THEN [output |-> out, result |-> RenderOk(out)]
    ELSE IF ret.kind = "Panic" THEN [output |-> out, result |-> RenderPanic]
    ELSE IF ret.kind = "Err"
    THEN [output |-> out, result |-> RenderErr(ParseError(ret.err))]
    ELSE IF ret.kind = "Str"
    THEN [output |-> out \o ret.text, result |-> Running]
    ELSE LET e == expand(vars, ret.var) IN
         IF e.ok THEN [output |-> out \o e.val, result |-> Running]
         ELSE [output |-> out, result |-> RenderErr(e.err)]

(***************************************************************************)
(* The inputs: templates and contexts.                                     *)
(***************************************************************************)
NameA == <<"a">>

NameB == <<"b">>

Open == <<"{", "{">>

Close == <<"}", "}">>

Fragments ==
    { <<"x">>, <<"\n">>, <<"{">>, <<"}">>,
      Open \o <<"a">> \o Close,                        \* {{a}}
      Open \o <<" ", "a", ".", "b", " ">> \o Close,    \* {{ a.b }}
      Open \o <<"a", ".">> \o Close,                   \* {{a.}}
      Open \o <<"a", " ", "b">> \o Close,              \* {{a b}}
      Open \o Close,                                   \* {{}}
      Open \o <<" ", "!">> \o Close,                   \* {{ !}}
      Open \o <<"a", "!">> \o Close,                   \* {{a!}}
      Open \o <<"a">>,                                 \* {{a
      Open \o <<"a", ".">> }                           \* {{a.

RECURSIVE Compose(_)
Compose(n) ==
    IF n = 0 THEN {<<>>}
    ELSE LET shorter == Compose(n - 1) IN
         shorter \cup {t \o f : t \in shorter, f \in Fragments}

Templates == Compose(MaxPieces)

RECURSIVE Pad(_)
Pad(n) == IF n = 0 THEN <<>> ELSE <<" ">> \o Pad(n - 1)

Paths == {Single(NameA), Single(NameB), Segments(<<NameA, NameB>>),
          Segments(<<NameA, NameB, NameA>>)}

\* `{{`, spaces, the dotted form of a path, spaces, `}}`
LonePlaceholders ==
    {Open \o Pad(i) \o Display(p) \o Pad(j) \o Close :
        i \in 0..MaxPad, j \in 0..MaxPad, p \in Paths}

Contexts ==
    { EmptyMap,
      define(EmptyMap, Single(NameA), String(<<"t">>)),
      define(EmptyMap, Segments(<<NameA, NameB>>), String(<<"u", "v">>)),
      define(define(EmptyMap, Single(NameB), String(<<>>)),
             Segments(<<NameA, NameB, NameA>>), String(<<"w">>)) }

(***************************************************************************)
(* The state machine.                                                      *)
(***************************************************************************)
VARIABLES
    chars,      \* the template: Tokenize.chars / render's input
    ctx,        \* Context.vars
    tk,         \* the Tokenize struct
    last,       \* what the last call of next returned
    tokens,     \* the Some(..) items next has returned, in order
    spans,      \* <<start, end>> of every placeholder next has recognised
    nones,      \* how many times next has returned None
    output,     \* render's output String
    result,     \* render's result: Idle (no render), Running, Ok, Err, Panic
    call,       \* the last call of define / get_value / append on the context
    ncalls      \* how many such calls were made

vars == <<chars, ctx, tk, last, tokens, spans, nones, output, result, call, ncalls>>

Idle == [kind |-> "Idle"]

NotCalled == [kind |-> "NotCalled"]

\* no call was made on the context since Context::new() / the given context
NoCall == [kind |-> "NoCall"]

InitCalls ==
    /\ call = NoCall
    /\ ncalls = 0

InitTokenizer ==
    /\ tk = TokenizeNew
    /\ last = NotCalled
    /\ tokens = <<>>
    /\ spans = <<>>
    /\ nones = 0
    /\ output = <<>>

\* a caller holding a Tokenize::new(chars)
Init ==
    /\ chars \in Templates
    /\ ctx = EmptyMap
    /\ result = Idle
    /\ InitTokenizer
    /\ InitCalls

\* a caller about to run ctx.render(chars)
InitRender ==
    /\ chars \in Templates \cup LonePlaceholders
    /\ ctx \in Contexts
    /\ result = Running
    /\ InitTokenizer
    /\ InitCalls

\* the effect of one call of next on the tokenizer and on its history
Pull(o) ==
    /\ tk' = o.tk
    /\ last' = o.ret
    /\ tokens' = IF o.ret.kind \in {"Str", "Variable", "Err"}
                 THEN Append(tokens, o.ret) ELSE tokens
    /\ spans' = IF o.at >= 0 THEN Append(spans, <<o.at, o.tk.head>>) ELSE spans
    /\ nones' = IF o.ret.kind = "None" THEN nones + 1 ELSE nones

\* the caller calls tokens.next()
CallNext(overflow_checks) ==
    /\ result = Idle
    /\ last.kind # "Panic"
    /\ nones < MaxNoneCalls
    /\ Pull(TokenizeNext(chars, tk, overflow_checks))
    /\ UNCHANGED <<chars, ctx, output, result, call, ncalls>>

\* one turn of render's loop: pull a token, then append, fail or finish
RenderStep(overflow_checks) ==
    /\ result = Running
    /\ LET o == TokenizeNext(chars, tk, overflow_checks)
           r == RenderToken(ctx, output, o.ret)
       IN /\ Pull(o)
          /\ output' = r.output
          /\ result' = r.result
    /\ UNCHANGED <<chars, ctx, call, ncalls>>

Next == \E overflow_checks \in BOOLEAN : CallNext(overflow_checks)

NextRender == \E overflow_checks \in BOOLEAN : RenderStep(overflow_checks)

Spec == Init /\ [][Next]_vars

SpecRender == InitRender /\ [][NextRender]_vars

(***************************************************************************)
(* A caller building a context: Context::new(), then calls of define,      *)
(* get_value, append and merge, then one render.                           *)
(***************************************************************************)
\* Object::new().with_property("b", "c")
ObjectB == Object(Insert(EmptyMap, NameB, String(<<"c">>)))

\* Object::new().with_property("a", "s")
\*              .with_property("b", Object::new().with_property("a", "w"))
ObjectAB ==
    Object(Insert(Insert(EmptyMap, NameA, String(<<"s">>)),
                  NameB, Object(Insert(EmptyMap, NameA, String(<<"w">>)))))

Values == {String(<<"t">>), String(<<"u", "v">>), ObjectB, ObjectAB}

\* mutant: the segments of the argument come first
join_other_first(x, y) == Segments(y.segs \o x.segs)

\* Variable::join
join(x, y) == Segments(x.segs \o y.segs)

\* the paths rendered: those defined and those one or two segments below them
RenderPaths ==
    Paths \cup {join(p, q) : p \in Paths, q \in {Single(NameA), Single(NameB),
                                                 Segments(<<NameB, NameA>>),
                                                 Segments(<<NameA, NameA>>),
                                                 Segments(<<NameA, NameB, NameA>>)}}

ContextTemplates == {Open \o Display(p) \o Close : p \in RenderPaths}

\* Context::new(); no template is rendered yet
InitContext ==
    /\ chars = <<>>
    /\ ctx = EmptyMap
    /\ result = Idle
    /\ InitTokenizer
    /\ InitCalls

\* the context is called when no render runs, the budget of calls allows and
\* the last call did not panic
CanCall ==
    /\ result = Idle
    /\ ncalls < MaxCalls
    /\ ~(call.kind = "define" /\ call.panicked)

Called(c) ==
    /\ call' = c
    /\ ncalls' = ncalls + 1
    /\ UNCHANGED <<chars, tk, last, tokens, spans, nones, output, result>>

\* ctx.define(var, value)
DefineCall(var, value) ==
    /\ CanCall
    /\ ctx' = define(ctx, var, value)
    /\ Called([kind |-> "define", var |-> var, value |-> value, before |-> ctx,
               panicked |-> define_panics(ctx, var, value)])

\* ctx.get_value(&var)
GetValueCall(var) ==
    /\ CanCall
    /\ ctx' = ctx
    /\ Called([kind |-> "get_value", var |-> var, before |-> ctx,
               ret |-> get_value(ctx, var)])

\* ctx.append(other)
AppendCall(other) ==
    /\ CanCall
    /\ ctx' = append(ctx, other)
    /\ Called([kind |-> "append", other |-> other, before |-> ctx])

\* ctx = ctx.merge(other)
MergeCall(other) ==
    /\ CanCall
    /\ ctx' = merge(ctx, other)
    /\ Called([kind |-> "merge", other |-> other, before |-> ctx])

\* ctx.render(input) is entered: `let mut output = String::new()`
RenderCall(input) ==
    /\ result = Idle
    /\ chars' = input
    /\ result' = Running
    /\ output' = <<>>
    /\ UNCHANGED <<ctx, tk, last, tokens, spans, nones, call, ncalls>>

NextContext ==
    \/ \E var \in Paths, value \in Values : DefineCall(var, value)
    \/ \E var \in RenderPaths : GetValueCall(var)
    \/ \E other \in Contexts : AppendCall(other)
    \/ \E other \in Contexts : MergeCall(other)
    \/ \E input \in ContextTemplates : RenderCall(input)
    \/ \E overflow_checks \in BOOLEAN : RenderStep(overflow_checks)

SpecContext == InitContext /\ [][NextContext]_vars

(***************************************************************************)
(* A caller parsing a path string: Variable::from_str on the bare string,  *)
(* or Tokenize on the string inside `{{` `}}`.  chars is the path string.  *)
(***************************************************************************)
PathBytes == {"a", ".", " ", "!"}

\* the strings of at most n bytes of PathBytes
RECURSIVE StringsUpTo(_)
StringsUpTo(n) ==
    IF n = 0 THEN {<<>>}
    ELSE LET shorter == StringsUpTo(n - 1) IN
         shorter \cup {Append(s, b) : s \in shorter, b \in PathBytes}

PathStrings == StringsUpTo(MaxPathLen)

InitPath ==
    /\ chars \in PathStrings
    /\ ctx = EmptyMap
    /\ result = Idle
    /\ InitTokenizer
    /\ InitCalls

\* chars.parse::<Variable>()
FromStrCall ==
    /\ call.kind \in {"NoCall", "from_parts"}
    /\ call.kind = "from_parts" => call.ret.ok
    /\ call' = [kind |-> "from_str", from |-> call, ret |-> from_str(chars)]
    /\ ncalls' = ncalls + 1
    /\ UNCHANGED <<chars, ctx, tk, last, tokens, spans, nones, output, result>>

\* Tokenize::new(&format!("{{{{{chars}}}}}")).next()
BlockCall(overflow_checks) ==
    /\ call.kind = "NoCall"
    /\ call' = [kind |-> "next", from |-> call,
                ret |-> TokenizeNext(Open \o chars \o Close, TokenizeNew,
                                     overflow_checks).ret]
    /\ ncalls' = ncalls + 1
    /\ UNCHANGED <<chars, ctx, tk, last, tokens, spans, nones, output, result>>

NextPath ==
    \/ FromStrCall
    \/ \E overflow_checks \in BOOLEAN : BlockCall(overflow_checks)

SpecPath == InitPath /\ [][NextPath]_vars

(***************************************************************************)
(* A caller building a path from parts, displaying it and parsing the      *)
(* display form: chars is Variable::from_parts(parts).to_string().         *)
(***************************************************************************)
PartStrings ==
    { <<>>, <<"a">>, <<"b">>, <<"a", "b">>, <<"-">>, <<"a", ".", "b">>,
      <<"a", " ", "b">>, <<" ">>, <<"!">>, <<"a", "!">> }

\* the lists of at most n parts
RECURSIVE ListsUpTo(_)
ListsUpTo(n) ==
    IF n = 0 THEN {<<>>}
    ELSE LET shorter == ListsUpTo(n - 1) IN
         shorter \cup {Append(l, p) : l \in shorter, p \in PartStrings}

PartLists == ListsUpTo(MaxParts)

InitParts ==
    /\ chars = <<>>
    /\ ctx = EmptyMap
    /\ result = Idle
    /\ InitTokenizer
    /\ InitCalls

\* let var = Variable::from_parts(parts); chars = var.to_string()
FromPartsCall(parts) ==
    /\ call.kind = "NoCall"
    /\ LET r == from_parts(parts) IN
          /\ call' = [kind |-> "from_parts", parts |-> parts, ret |-> r]
          /\ chars' = IF r.ok THEN Display(r.val) ELSE chars
    /\ ncalls' = ncalls + 1
    /\ UNCHANGED <<ctx, tk, last, tokens, spans, nones, output, result>>

\* let var = Variable::single(val)
SingleCall(val) ==
    /\ call.kind = "NoCall"
    /\ call' = [kind |-> "single", val |-> val, ret |-> single(val)]
    /\ ncalls' = ncalls + 1
    /\ UNCHANGED <<chars, ctx, tk, last, tokens, spans, nones, output, result>>

\* let var = x.join(y), x the variable from_parts returned;
\* chars = var.to_string()
JoinCall(y) ==
    /\ call.kind = "from_parts"
    /\ call.ret.ok
    /\ LET r == join(call.ret.val, y) IN
          /\ call' = [kind |-> "join", x |-> call.ret.val, y |-> y, ret |-> r]
          /\ chars' = Display(r)
    /\ ncalls' = ncalls + 1
    /\ UNCHANGED <<ctx, tk, last, tokens, spans, nones, output, result>>

NextParts ==
    \/ \E parts \in PartLists : FromPartsCall(parts)
    \/ \E y \in Paths : JoinCall(y)
    \/ \E val \in PartStrings : SingleCall(val)
    \/ FromStrCall

SpecParts == InitParts /\ [][NextParts]_vars

(***************************************************************************)
(* Helpers of the properties.                                              *)
(***************************************************************************)
\* chars[i..i+2] is the two bytes pair
PairAt(s, i, pair) == i + 1 < Len(s) /\ At(s, i) = pair[1] /\ At(s, i + 1) = pair[2]

RenderFinished == result.kind \in {"Ok", "Err", "Panic"}

\* the template is `{{`, i spaces, the dotted form of p, j spaces, `}}`
IsPlaceholderFor(s, p) ==
    /\ Len(s) >= 4 + Len(Display(p))
    /\ LET i == CountSpaces(s, 2)
           j == Len(s) - 4 - i - Len(Display(p))
       IN j >= 0 /\ s = Open \o Pad(i) \o Display(p) \o Pad(j) \o Close

\* p resolves to a string leaf
ResolvesToLeaf(p) ==
    get_value(ctx, p).some /\ get_value(ctx, p).val.tag = "String"

NoOpen(s) == \A i \in 0..Len(s) : ~PairAt(s, i, Open)

\* C2: render of a template without `{{` is Ok(template)
C2_PlainTemplateRendersUnchanged ==
    (RenderFinished /\ NoOpen(chars)) => result = RenderOk(chars)

(***************************************************************************)
(* C3: once the tokenizer has run to its end over a template with          *)
(* placeholders and no parse error, the Str tokens and the placeholder     *)
(* spans, concatenated in order, are the template: in particular the       *)
(* literal text after the last placeholder is the final Str token.         *)
(***************************************************************************)
ErrSeen == \E i \in DOMAIN tokens : tokens[i].kind = "Err"

\* the tokens toks put back together, the next Variable token standing for span k
RECURSIVE Reassembled(_, _)
Reassembled(toks, k) ==
    IF toks = <<>> THEN <<>>
    ELSE IF Head(toks).kind = "Str"
    THEN Head(toks).text \o Reassembled(Tail(toks), k)
    ELSE IF Head(toks).kind = "Variable"
    THEN Slice(chars, spans[k][1], spans[k][2]) \o Reassembled(Tail(toks), k + 1)
    ELSE <<>>

\* C3: at the end, Str tokens and placeholder spans in order make up the template
C3_LiteralTextIsEmittedWhole ==
    (last.kind = "None" /\ spans # <<>> /\ ~ErrSeen)
        => Reassembled(tokens, 1) = chars

(***************************************************************************)
(* C4: a Variable token p in render is expanded as get_value(p) decides:   *)
(* None fails the render with MissingVariable(p), an Object with           *)
(* TriedToExpandObject(p), a String appends its text to the output; and    *)
(* Context::expand gives the same three outcomes for every path.           *)
(***************************************************************************)
ExpandAsGetValue(p) ==
    LET g == get_value(ctx, p) IN
    IF ~g.some THEN expand(ctx, p) = Err(MissingVariable(p))
    ELSE IF g.val.tag = "Object" THEN expand(ctx, p) = Err(TriedToExpandObject(p))
    ELSE expand(ctx, p) = Ok(g.val.text)

VariableTokenAsGetValue ==
    last'.kind = "Variable" =>
        LET p == last'.var
            g == get_value(ctx, p)
        IN IF ~g.some
           THEN result' = RenderErr(MissingVariable(p)) /\ output' = output
           ELSE IF g.val.tag = "Object"
           THEN result' = RenderErr(TriedToExpandObject(p)) /\ output' = output
           ELSE result' = Running /\ output' = output \o g.val.text

\* C4: expand, and every Variable token of render, follow get_value: None, Object, String
C4_ExpandDecidedByGetValue ==
    /\ [](\A p \in Paths : ExpandAsGetValue(p))
    /\ [][VariableTokenAsGetValue]_vars

\* render has failed on an object-valued variable that was not the first token
C4_Witness ==
    /\ Len(tokens) >= 2
    /\ last.kind = "Variable"
    /\ result = RenderErr(TriedToExpandObject(last.var))

(***************************************************************************)
(* C5: render fails with the error of the first failing token of the       *)
(* template (a parse error, a missing or an object-valued variable), it    *)
(* has pulled no token after that one, and the Err carries no output; it   *)
(* returns Ok only when no token of the template fails.                    *)
(***************************************************************************)
TokenFails(item) ==
    \/ item.kind = "Err"
    \/ item.kind = "Variable" /\ ~ResolvesToLeaf(item.var)

ErrorOfToken(item) ==
    IF item.kind = "Err" THEN ParseError(item.err)
    ELSE IF ~get_value(ctx, item.var).some THEN MissingVariable(item.var)
    ELSE TriedToExpandObject(item.var)

\* C5: render fails with the first failing token, pulls nothing after it, returns no output
C5_RenderFailsFast ==
    RenderFinished =>
        LET items == Collect(chars, TokenizeNew)
            failing == {i \in DOMAIN items : TokenFails(items[i])}
        IN IF result.kind = "Err"
           THEN \E i \in failing :
                   /\ \A j \in failing : i <= j
                   /\ result = RenderErr(ErrorOfToken(items[i]))
                   /\ tokens = SubSeq(items, 1, i)
                   /\ nones = 0
                   /\ DOMAIN result = {"kind", "err"}
           ELSE failing = {}

\* render failed after it had built some output, with another failing token
\* further on in the template
C5_Witness ==
    /\ result.kind = "Err"
    /\ output # <<>>
    /\ LET items == Collect(chars, TokenizeNew) IN
       Cardinality({i \in DOMAIN items : TokenFails(items[i])}) >= 2

(***************************************************************************)
(* C6: once next has returned Some(Err(_)), every later call returns None  *)
(* and yields no token, whatever input remains.                            *)
(***************************************************************************)
\* C6: after Some(Err(_)) every call of next returns None
C6_ErrorIsSticky ==
    [][ErrSeen => (last'.kind = "None" /\ tokens' = tokens /\ tk'.head = tk.head)]_vars

\* next was called MaxNoneCalls times or more after an error that left more than
\* a whole placeholder of input unread
C6_Witness ==
    /\ ErrSeen
    /\ nones >= 2
    /\ Len(chars) - tk.head >= 10

(***************************************************************************)
(* C7: the tokens come out in input order, none lost: for every placeholder*)
(* recognised, Str of the bytes between the previous tail and its `{{` (if *)
(* there are any) and then Variable of its path; the Variable held in the  *)
(* one-slot lookahead is what the very next call returns.                  *)
(***************************************************************************)
PathAt(b) == parse_template_inner(SliceFrom(chars, b + 2)).var

\* the tokens the placeholders spans[k..] stand for, prev_end being the end of
\* the placeholder before
RECURSIVE ExpectedTokens(_, _)
ExpectedTokens(k, prev_end) ==
    IF k > Len(spans) THEN <<>>
    ELSE LET b == spans[k][1]
             e == spans[k][2]
         IN (IF b > prev_end THEN <<RetStr(Slice(chars, prev_end, b))>> ELSE <<>>)
            \o <<RetVariable(PathAt(b))>>
            \o ExpectedTokens(k + 1, e)

TokensInInputOrder ==
    LET exp == ExpectedTokens(1, 0)
        n == IF tk.var_next.some THEN Len(exp) - 1 ELSE Len(exp)
    IN /\ Len(tokens) >= n
       /\ SubSeq(tokens, 1, n) = SubSeq(exp, 1, n)
       /\ \A i \in (n + 1)..Len(tokens) : tokens[i].kind # "Variable"
       /\ tk.var_next.some =>
             /\ Len(tokens) = n
             /\ tokens[n].kind = "Str"
             /\ RetVariable(tk.var_next.var) = exp[Len(exp)]

LookaheadComesNext ==
    tk.var_next.some =>
        /\ last' = RetVariable(tk.var_next.var)
        /\ tokens' = Append(tokens, last')
        /\ ~tk'.var_next.some
        /\ spans' = spans

\* C7: Str of the pending text, then Variable of the path, in input order, none lost
C7_StrThenVariableInOrder ==
    /\ []TokensInInputOrder
    /\ [][LookaheadComesNext]_vars

\* literal text, a placeholder, and a second placeholder with no text before it
C7_Witness ==
    /\ Len(tokens) >= 3
    /\ tokens[1].kind = "Str"
    /\ tokens[2].kind = "Variable"
    /\ tokens[3].kind = "Variable"

(***************************************************************************)
(* C8: a `{{` that no `}}` follows before the end of the input is literal  *)
(* text: next never returns an error for it.  (After an error the scan     *)
(* head stays on the `{{` of the failing block.)                           *)
(***************************************************************************)
ClosedAfter(b) == \E e \in (b + 2)..Len(chars) : PairAt(chars, e, Close)

\* C8: next returns an error only for a `{{` that a `}}` follows
C8_UnterminatedOpenIsLiteral ==
    last.kind = "Err" => ClosedAfter(tk.head)

(***************************************************************************)
(* C9: a block, from a `{{` to its closing `}}`, whose text is not a       *)
(* variable path makes next return the parse error: the scan never moves   *)
(* past such a block (stated for the first `{{` of the template).          *)
(***************************************************************************)
IsFirstOpen(b) == PairAt(chars, b, Open) /\ \A i \in 0..(b - 1) : ~PairAt(chars, i, Open)

\* the text of the block opened at b, up to its closing `}}`
BlockText(b) ==
    LET e == CHOOSE e \in (b + 2)..Len(chars) :
                 /\ PairAt(chars, e, Close)
                 /\ \A f \in (b + 2)..(e - 1) : ~PairAt(chars, f, Close)
    IN Slice(chars, b + 2, e)

BlockParses(b) ==
    LET inner == BlockText(b) IN
    parse_with_terminator(SliceFrom(inner, CountSpaces(inner, 0)), FALSE).ok

\* C9: the scan never moves past a closed block whose text is not a path
C9_BadBlockIsAnError ==
    \A b \in 0..Len(chars) :
        (IsFirstOpen(b) /\ ClosedAfter(b) /\ ~BlockParses(b)) => tk.head <= b

(***************************************************************************)
(* C10: every placeholder next recognises has exactly the shape `{{`,      *)
(* spaces, the dotted form of its path, spaces, `}}`.                      *)
(***************************************************************************)
\* C10: a recognised placeholder is `{{`, spaces, its dotted path, spaces, `}}`
C10_PlaceholderHasExactShape ==
    \A k \in DOMAIN spans :
        IsPlaceholderFor(Slice(chars, spans[k][1], spans[k][2]), PathAt(spans[k][1]))

(***************************************************************************)
(* Properties of define, get_value, append and merge (SpecContext).        *)
(***************************************************************************)
\* the Variable with the segments segs
PathOf(segs) == IF Len(segs) = 1 THEN Single(segs[1]) ELSE Segments(segs)

\* the string leaves of a value: the property path to each and its text
RECURSIVE LeavesOf(_)
LeavesOf(value) ==
    IF value.tag = "String" THEN {[path |-> <<>>, text |-> value.text]}
    ELSE UNION {{[path |-> <<n>> \o l.path, text |-> l.text] :
                    l \in LeavesOf(value.values[n])} : n \in DOMAIN value.values}

\* `{{`, the dotted form of the segments, `}}`
PlaceholderOf(segs) == Open \o Display(PathOf(segs)) \o Close

\* the last call on the context was define(p, obj) with an Object value
DefinedObject == call.kind = "define" /\ call.value.tag = "Object"

\* define(p, ..) found the single name p bound to an object
SingleOntoObject ==
    /\ call.var.kind = "Single"
    /\ Get(call.before, call.var.segs[1]).some
    /\ Get(call.before, call.var.segs[1]).val.tag = "Object"

\* where define(p, obj) puts obj: at p, or at p.p when the single name p was
\* bound to an object
StoredAt ==
    IF SingleOntoObject THEN call.var.segs \o call.var.segs ELSE call.var.segs

(***************************************************************************)
(* C11.  After define(p, obj) with obj an Object, render of                *)
(* `{{p.k1...kn}}` returns the text of the leaf found by following k1..kn  *)
(* inside obj, for every string leaf of obj.                               *)
(***************************************************************************)
\* C11: after define(p, obj), rendering `{{p.k1...kn}}` gives the text of the leaf of obj at k1..kn
C11_ObjectLeavesRenderAtPath ==
    (RenderFinished /\ DefinedObject) =>
        \A l \in LeavesOf(call.value) :
            chars = PlaceholderOf(call.var.segs \o l.path) => result = RenderOk(l.text)

\* C11 as amended: the leaves are rendered at p.k1...kn, except when p is a
\* single name bound to an object before the call: then at p.p.k1...kn
C11_ObjectLeavesRenderWhereStored ==
    (RenderFinished /\ DefinedObject) =>
        \A l \in LeavesOf(call.value) :
            chars = PlaceholderOf(StoredAt \o l.path) => result = RenderOk(l.text)

\* a leaf two levels inside the defined object has been rendered
C11_Witness ==
    /\ RenderFinished
    /\ DefinedObject
    /\ \E l \in LeavesOf(call.value) :
          /\ Len(l.path) = 2
          /\ chars = PlaceholderOf(StoredAt \o l.path)
          /\ result = RenderOk(l.text)

\* the first k segments
Prefix(segs, k) == SubSeq(segs, 1, k)

\* the last call on the context was define(p, v) with p of several segments
DefinedAtSegments == call.kind = "define" /\ call.var.kind = "Segments"

\* the names of `after` are those of `before` and name, and all but name keep
\* their values
KeepsAllBut(before, after, name) ==
    /\ DOMAIN after = DOMAIN before \cup {name}
    /\ \A m \in DOMAIN before \ {name} : after[m] = before[m]

\* the node at the first k segments of the defined path is an object after the
\* call: the old object with its other properties, or a fresh object holding
\* the new branch only when there was a leaf or nothing
NodeOnPath(k) ==
    LET segs == call.var.segs
        old == get_value(call.before, PathOf(Prefix(segs, k)))
        new == get_value(ctx, PathOf(Prefix(segs, k)))
    IN /\ new.some
       /\ new.val.tag = "Object"
       /\ IF old.some /\ old.val.tag = "Object"
          THEN KeepsAllBut(old.val.values, new.val.values, segs[k + 1])
          ELSE DOMAIN new.val.values = {segs[k + 1]}

(***************************************************************************)
(* C12.  define with a multi-segment path merges into the tree: the other  *)
(* top-level names and the other properties of every object on the path    *)
(* keep their values, missing nodes and string leaves on the path become   *)
(* objects holding the new branch only, and the value is written at the    *)
(* final segment.                                                          *)
(***************************************************************************)
\* C12: a multi-segment define keeps siblings, creates or replaces the nodes on the path, writes the value
C12_DefineMergesIntoTree ==
    DefinedAtSegments =>
        /\ KeepsAllBut(call.before, ctx, call.var.segs[1])
        /\ \A k \in 1..(Len(call.var.segs) - 1) : NodeOnPath(k)
        /\ get_value(ctx, call.var) = [some |-> TRUE, val |-> call.value]

\* a define through a.b replaced the string leaf at a.b and kept the object at a
C12_Witness ==
    /\ DefinedAtSegments
    /\ Len(call.var.segs) = 3
    /\ LET at1 == get_value(call.before, PathOf(Prefix(call.var.segs, 1)))
           at2 == get_value(call.before, PathOf(Prefix(call.var.segs, 2)))
       IN /\ at1.some /\ at1.val.tag = "Object"
          /\ at2.some /\ at2.val.tag = "String"
    /\ get_value(ctx, call.var) = [some |-> TRUE, val |-> call.value]

\* a define below a kept the other property of the object at a
C12_SiblingKept ==
    /\ DefinedAtSegments
    /\ \E m \in DOMAIN ctx[call.var.segs[1]].values :
          /\ m # call.var.segs[2]
          /\ Get(call.before, call.var.segs[1]).some
          /\ call.before[call.var.segs[1]].tag = "Object"
          /\ m \in DOMAIN call.before[call.var.segs[1]].values

\* the last call on the context was define(n, v) with n a single name
DefinedAtSingle == call.kind = "define" /\ call.var.kind = "Single"

(***************************************************************************)
(* C13.  define of a single name n with value v: an undefined n or an n    *)
(* bound to a string is bound to v; an n bound to an object keeps the      *)
(* object, which gets v as its property n.                                 *)
(***************************************************************************)
\* C13: define(n, v) binds n to v unless n is an object, which then gets v as its property n
C13_DefineSingleName ==
    DefinedAtSingle =>
        LET n == call.var.segs[1]
            old == get_value(call.before, call.var)
            new == get_value(ctx, call.var)
        IN IF old.some /\ old.val.tag = "Object"
           THEN /\ new.some
                /\ new.val.tag = "Object"
                /\ KeepsAllBut(old.val.values, new.val.values, n)
                /\ get_value(ctx, Segments(<<n, n>>)) = [some |-> TRUE, val |-> call.value]
           ELSE new = [some |-> TRUE, val |-> call.value]

\* a string was defined at a name bound to an object with another property
C13_Witness ==
    /\ DefinedAtSingle
    /\ call.value.tag = "String"
    /\ LET old == get_value(call.before, call.var) IN
          /\ old.some
          /\ old.val.tag = "Object"
          /\ DOMAIN old.val.values # {call.var.segs[1]}
    /\ get_value(ctx, Segments(<<call.var.segs[1], call.var.segs[1]>>)).some

\* a string was defined at a name bound to another string
C13_LastStringWins ==
    /\ DefinedAtSingle
    /\ call.value.tag = "String"
    /\ LET old == get_value(call.before, call.var) IN
          old.some /\ old.val.tag = "String" /\ old.val # call.value
    /\ ctx[call.var.segs[1]] = call.value

\* every segment of segs names a property of the object reached so far
RECURSIVE HasPath(_, _)
HasPath(map, segs) ==
    \/ segs = <<>>
    \/ /\ Head(segs) \in DOMAIN map
       /\ \/ Len(segs) = 1
          \/ /\ map[Head(segs)].tag = "Object"
             /\ HasPath(map[Head(segs)].values, Tail(segs))

\* the value stored at a path the tree has
RECURSIVE ValueAt(_, _)
ValueAt(map, segs) ==
    IF Len(segs) = 1 THEN map[segs[1]]
    ELSE ValueAt(map[segs[1]].values, Tail(segs))

\* the first k segments lead to a string leaf
LeafAt(map, segs, k) ==
    HasPath(map, Prefix(segs, k)) /\ ValueAt(map, Prefix(segs, k)).tag = "String"

\* the first k - 1 segments lead to an object (or k = 1) without the k-th name
MissingAt(map, segs, k) ==
    IF k = 1 THEN segs[1] \notin DOMAIN map
    ELSE /\ HasPath(map, Prefix(segs, k - 1))
         /\ ValueAt(map, Prefix(segs, k - 1)).tag = "Object"
         /\ segs[k] \notin DOMAIN ValueAt(map, Prefix(segs, k - 1)).values

(***************************************************************************)
(* C14.  get_value is a pure read: the context is as before the call; the  *)
(* result is None when a segment is missing or a segment other than the    *)
(* last leads to a string leaf, and the value stored at the path otherwise.*)
(***************************************************************************)
\* C14: get_value leaves the context unchanged, returns None for a missing segment or a leaf before the last segment, else the stored value
C14_GetValueIsPureRead ==
    call.kind = "get_value" =>
        LET segs == call.var.segs
            cut == \E k \in 1..Len(segs) :
                      \/ MissingAt(call.before, segs, k)
                      \/ k < Len(segs) /\ LeafAt(call.before, segs, k)
        IN /\ ctx = call.before
           /\ cut => call.ret = None
           /\ ~cut => /\ HasPath(call.before, segs)
                      /\ call.ret = [some |-> TRUE, val |-> ValueAt(call.before, segs)]

\* get_value was asked to go below a string leaf and returned None
C14_Witness ==
    /\ call.kind = "get_value"
    /\ \E k \in 1..(Len(call.var.segs) - 1) : LeafAt(call.before, call.var.segs, k)
    /\ call.ret = None
    /\ ctx = call.before

\* get_value returned an object stored two segments deep
C14_ReturnsObject ==
    /\ call.kind = "get_value"
    /\ Len(call.var.segs) >= 2
    /\ call.ret.some
    /\ call.ret.val.tag = "Object"

(***************************************************************************)
(* C15.  append and merge take the union of the top-level mappings: a name *)
(* of the appended context gets the whole value it has there, the other    *)
(* names of the receiver keep their values.                                *)
(***************************************************************************)
\* C15: after append / merge every name of the other context has the other's whole value, the receiver's other names keep theirs
C15_AppendIsTopLevelUnion ==
    call.kind \in {"append", "merge"} =>
        /\ DOMAIN ctx = DOMAIN call.before \cup DOMAIN call.other
        /\ \A n \in DOMAIN call.other : ctx[n] = call.other[n]
        /\ \A n \in DOMAIN call.before \ DOMAIN call.other : ctx[n] = call.before[n]

\* an object of the receiver was replaced whole by the appended context's
\* value and another name of the receiver was kept
C15_Witness ==
    /\ call.kind = "append"
    /\ \E n \in DOMAIN call.before \cap DOMAIN call.other :
          /\ call.before[n].tag = "Object"
          /\ call.other[n].tag = "Object"
          /\ \E k \in DOMAIN call.before[n].values :
                /\ k \notin DOMAIN call.other[n].values
                /\ ~get_value(ctx, Segments(<<n, k>>)).some
    /\ DOMAIN call.other # {}

\* merge replaced a value of the receiver
C15_MergeReplaces ==
    /\ call.kind = "merge"
    /\ \E n \in DOMAIN call.before \cap DOMAIN call.other :
          call.before[n] # call.other[n] /\ ctx[n] = call.other[n]

(***************************************************************************)
(* Properties of the path constructors and the path parser (SpecParts,     *)
(* SpecPath).                                                              *)
(***************************************************************************)
\* the parts with a '.' between each two, built from the last part backwards
RECURSIVE JoinedByDot(_)
JoinedByDot(parts) ==
    IF Len(parts) = 1 THEN parts[1]
    ELSE JoinedByDot(SubSeq(parts, 1, Len(parts) - 1)) \o <<".">> \o parts[Len(parts)]

\* a non-empty list of non-empty parts without '.'
PartsWithoutDot(parts) ==
    /\ parts # <<>>
    /\ \A i \in 1..Len(parts) : parts[i] # <<>> /\ ~Contains(parts[i], ".")

\* a non-empty list of non-empty parts made of identifier characters
PartsOfIdentifierChars(parts) ==
    /\ parts # <<>>
    /\ \A i \in 1..Len(parts) :
          /\ parts[i] # <<>>
          /\ \A j \in 1..Len(parts[i]) : is_valid_identifier_ch(parts[i][j])

\* from_parts(parts) was called, or was called and its display form parsed:
\* the path was built, its display form is the parts joined by '.', and the
\* parse gave the same path back
RoundTrips ==
    /\ call.kind = "from_parts" =>
          call.ret.ok /\ chars = JoinedByDot(call.parts)
    /\ call.kind = "from_str" =>
          /\ chars = JoinedByDot(call.from.parts)
          /\ call.ret = Ok(call.from.ret.val)

\* the parts given to from_parts, by the last call or the one before it
PartsGiven ==
    IF call.kind = "from_parts" THEN call.parts
    ELSE IF call.kind = "from_str" /\ call.from.kind = "from_parts"
         THEN call.from.parts
         ELSE <<>>

(***************************************************************************)
(* C16.  For every path built by from_parts from a non-empty list of       *)
(* non-empty parts without '.', the display form is the parts joined by    *)
(* '.' and parsing the display form returns an equal path.                 *)
(***************************************************************************)
\* C16: display of from_parts(parts) is the parts joined by '.', and parsing it gives the path back, for parts without '.'
C16_DisplayParseRoundTrip == PartsWithoutDot(PartsGiven) => RoundTrips

\* C16 as amended: the same for parts made of identifier characters only
C16_RoundTripOfIdentifierParts == PartsOfIdentifierChars(PartsGiven) => RoundTrips

\* the display form of a path of three parts was parsed back
C16_Witness ==
    /\ call.kind = "from_str"
    /\ Len(PartsGiven) = 3
    /\ PartsOfIdentifierChars(PartsGiven)
    /\ call.ret = Ok(Segments(PartsGiven))
    /\ Len(chars) > 5

\* s is segments of identifier characters joined by single dots
IsDottedPath(s) ==
    /\ s # <<>>
    /\ \A i \in 1..Len(s) : s[i] = "." \/ is_valid_identifier_ch(s[i])
    /\ s[1] # "."
    /\ s[Len(s)] # "."
    /\ \A i \in 1..(Len(s) - 1) : ~(s[i] = "." /\ s[i + 1] = ".")

\* s is a dotted path, a '.' at the (1-based) position d, then spaces only
HasTrailingDotAt(s, d) ==
    /\ s[d] = "."
    /\ IsDottedPath(SubSeq(s, 1, d - 1))
    /\ \A i \in (d + 1)..Len(s) : s[i] = " "

\* the last call was chars.parse::<Variable>()
ParsedBare == call.kind = "from_str"

(***************************************************************************)
(* C17.  Parsing the empty string fails with EmptyVariableSegment at       *)
(* (0,0); parsing valid segments followed by a trailing '.' and then       *)
(* spaces only fails with EmptyVariableSegment at the offset of that '.'.  *)
(***************************************************************************)
\* C17: parse("") and parse of a path with a trailing '.' fail with EmptyVariableSegment, at (0,0) and at the final '.'
C17_EmptyAndTrailingDot ==
    ParsedBare =>
        /\ chars = <<>> => call.ret = Err(Error(0, 0, "EmptyVariableSegment"))
        /\ \A d \in 1..Len(chars) :
              HasTrailingDotAt(chars, d) =>
                  call.ret = Err(Error(d - 1, 0, "EmptyVariableSegment"))

\* a path of two segments, a trailing '.' and a space was parsed
C17_Witness ==
    /\ ParsedBare
    /\ Len(chars) = 5
    /\ HasTrailingDotAt(chars, 4)
    /\ call.ret = Err(Error(3, 0, "EmptyVariableSegment"))

\* the empty string was parsed
C17_EmptyParsed ==
    ParsedBare /\ chars = <<>> /\ call.ret = Err(Error(0, 0, "EmptyVariableSegment"))

\* the last call was Tokenize::new on `{{` chars `}}`, then next()
ParsedInBlock == call.kind = "next"

\* s is a dotted path, two adjacent '.' at the (1-based) positions d and d + 1,
\* and a dotted path
HasEmptySegmentAt(s, d) ==
    /\ d + 1 < Len(s)
    /\ s[d] = "."
    /\ s[d + 1] = "."
    /\ IsDottedPath(SubSeq(s, 1, d - 1))
    /\ IsDottedPath(SubSeq(s, d + 2, Len(s)))

HasEmptySegment(s) == \E d \in 1..Len(s) : HasEmptySegmentAt(s, d)

(***************************************************************************)
(* C18.  A path with a zero-length segment between two dots is rejected:   *)
(* parsing it, bare or inside a placeholder, fails with                    *)
(* EmptyVariableSegment and returns no Variable.                           *)
(***************************************************************************)
\* C18: a string with two adjacent '.' separators fails with EmptyVariableSegment, bare and inside a placeholder
C18_AdjacentDotsAreRejected ==
    HasEmptySegment(chars) =>
        /\ ParsedBare =>
              ~call.ret.ok /\ call.ret.err.ty = "EmptyVariableSegment"
        /\ ParsedInBlock =>
              call.ret.kind = "Err" /\ call.ret.err.ty = "EmptyVariableSegment"

\* s is made of identifier characters, spaces and dots, and is a dotted path,
\* one or more spaces from the (1-based) position d on, a '.', and anything
HasSpaceBeforeDotAt(s, d) ==
    /\ \A i \in 1..Len(s) : s[i] \in {" ", "."} \/ is_valid_identifier_ch(s[i])
    /\ d <= Len(s)
    /\ s[d] = " "
    /\ IsDottedPath(SubSeq(s, 1, d - 1))
    /\ LET dot == d + CountSpaces(s, d - 1) IN dot <= Len(s) /\ s[dot] = "."

(***************************************************************************)
(* C19.  Parsing a path in which a space is followed, after spaces only,   *)
(* by a '.' fails with SpaceInPath at the offset of the first such space,  *)
(* after the first segment and after any later one.                        *)
(***************************************************************************)
\* C19: a space followed (over spaces only) by a '.' gives SpaceInPath at the offset of the first such space, after any segment
C19_SpaceBeforeDotIsSpaceInPath ==
    ParsedBare =>
        \A d \in 1..Len(chars) :
            HasSpaceBeforeDotAt(chars, d) =>
                call.ret = Err(Error(d - 1, 0, "SpaceInPath"))

\* s is a dotted path, one or more spaces, and a dotted path that starts at
\* the (1-based) position q
HasSecondPathAt(s, q) ==
    /\ q > 2
    /\ s[q - 1] = " "
    /\ IsDottedPath(SubSeq(s, q, Len(s)))
    /\ \E e \in 1..(q - 2) :
          /\ IsDottedPath(SubSeq(s, 1, e))
          /\ \A i \in (e + 1)..(q - 1) : s[i] = " "

(***************************************************************************)
(* C20.  Two valid paths separated by spaces are rejected as one path:     *)
(* parsing p, spaces, q fails with TooManyVariablesInBlock at the byte     *)
(* offset where q starts, bare and inside a placeholder.                   *)
(***************************************************************************)
\* C20: p, spaces, q fails with TooManyVariablesInBlock where q starts, as a bare string and inside `{{` `}}`
C20_TwoPathsAreTooMany ==
    \A q \in 1..Len(chars) :
        HasSecondPathAt(chars, q) =>
            /\ ParsedBare =>
                  call.ret = Err(Error(q - 1, 0, "TooManyVariablesInBlock"))
            /\ ParsedInBlock =>
                  call.ret = RetErr(Error(q - 1 + 2, 0, "TooManyVariablesInBlock"))

\* a.a, a space and a.a were parsed as a bare string
C20_Witness ==
    /\ ParsedBare
    /\ Len(chars) = 7
    /\ HasSecondPathAt(chars, 5)
    /\ IsDottedPath(SubSeq(chars, 1, 3))
    /\ call.ret = Err(Error(4, 0, "TooManyVariablesInBlock"))

\* a path, two spaces and a path of two segments were parsed inside a placeholder
C20_InBlock ==
    /\ ParsedInBlock
    /\ Len(chars) = 6
    /\ HasSecondPathAt(chars, 4)
    /\ chars[2] = " "
    /\ call.ret = RetErr(Error(5, 0, "TooManyVariablesInBlock"))

\* the byte b is not an identifier character, a space or a '.'
IsInvalidByte(b) == ~(is_valid_identifier_ch(b) \/ b = " " \/ b = ".")

\* the (1-based) position i holds the first invalid byte of s
FirstInvalidAt(s, i) ==
    /\ IsInvalidByte(s[i])
    /\ \A j \in 1..(i - 1) : ~IsInvalidByte(s[j])

(***************************************************************************)
(* C21.  Parsing a bare string that holds a byte that is not an identifier *)
(* character, a space or a '.' fails with InvalidCharacter carrying the    *)
(* first such byte, at its offset, whatever else is wrong with the string; *)
(* inside a placeholder the same string never gives InvalidCharacter.      *)
(***************************************************************************)
\* C21: from_str of a string with an invalid byte is InvalidCharacter of the first such byte at its offset; a placeholder never gives InvalidCharacter
C21_InvalidCharacterComesFirst ==
    /\ ParsedBare =>
          \A i \in 1..Len(chars) :
              FirstInvalidAt(chars, i) =>
                  call.ret = Err(InvalidCharacter(i - 1, 0, chars[i]))
    /\ ParsedInBlock =>
          ~(call.ret.kind = "Err" /\ call.ret.err.ty = "InvalidCharacter")

\* a string with an empty segment and a space before a dot ahead of its
\* invalid byte was parsed
C21_Witness ==
    /\ ParsedBare
    /\ Len(chars) >= 5
    /\ FirstInvalidAt(chars, Len(chars))
    /\ \E i \in 1..(Len(chars) - 2) : chars[i] = "." /\ chars[i + 1] = "."
    /\ \E i \in 1..(Len(chars) - 2) : chars[i] = " " /\ chars[i + 1] = "."
    /\ call.ret = Err(InvalidCharacter(Len(chars) - 1, 0, chars[Len(chars)]))

\* a string with an invalid byte was parsed inside a placeholder and gave an
\* error of another kind
C21_InBlock ==
    /\ ParsedInBlock
    /\ \E i \in 1..Len(chars) : IsInvalidByte(chars[i])
    /\ call.ret.kind = "Err"
    /\ call.ret.err.ty # "InvalidCharacter"

\* the constructor call r did not return: an assertion failed
Panicked(r) == ~r.ok /\ "panic" \in DOMAIN r

(***************************************************************************)
(* C22.  The constructors panic on a violated contract: single on an empty *)
(* string or on a string with a '.', from_parts on an empty list or on a   *)
(* list with an empty part at any position.                                *)
(***************************************************************************)
\* C22: single panics on an empty or dotted string; from_parts panics on an empty list and on an empty part at any position
C22_ConstructorsPanic ==
    /\ (/\ call.kind = "single"
        /\ (call.val = <<>> \/ Contains(call.val, ".")))
          => Panicked(call.ret)
    /\ (/\ call.kind = "from_parts"
        /\ \/ call.parts = <<>>
           \/ \E i \in 1..Len(call.parts) : call.parts[i] = <<>>)
          => Panicked(call.ret)

\* from_parts was given three parts of which only the last is empty, and
\* panicked
C22_Witness ==
    /\ call.kind = "from_parts"
    /\ Len(call.parts) = 3
    /\ call.parts[1] # <<>> /\ call.parts[2] # <<>> /\ call.parts[3] = <<>>
    /\ Panicked(call.ret)

\* single was given a dotted string and panicked
C22_SingleDotted ==
    /\ call.kind = "single"
    /\ Contains(call.val, ".")
    /\ Panicked(call.ret)

\* var is of the Single kind exactly if it has one segment
KindFollowsSegments(var) == (var.kind = "Single") <=> (Len(var.segs) = 1)

\* Variable::len of var is the number of bytes var.to_string() writes
LenIsDisplayLen(var) == VariableLen(var) = Len(Display(var))

(***************************************************************************)
(* C23.  A variable is determined by its sequence of segments: from_parts  *)
(* of one part is single of it, a parsed path of one segment is a Single,  *)
(* join(x, y) is from_parts of the segments of x followed by those of y,   *)
(* whichever of x and y are single, and len is the length of the display   *)
(* form.                                                                   *)
(***************************************************************************)
\* C23: from_parts of one part equals single; a parsed one-segment path is Single; join(x, y) equals from_parts of x's then y's segments; len is the byte length of the display form
C23_VariableIsItsSegments ==
    /\ (call.kind = "from_parts" /\ Len(call.parts) = 1)
          => call.ret = single(call.parts[1])
    /\ (call.kind = "from_parts" /\ call.ret.ok)
          => /\ KindFollowsSegments(call.ret.val)
             /\ LenIsDisplayLen(call.ret.val)
    /\ (call.kind = "from_str" /\ call.ret.ok)
          => /\ KindFollowsSegments(call.ret.val)
             /\ LenIsDisplayLen(call.ret.val)
    /\ call.kind = "join"
          => /\ Ok(call.ret) = from_parts(call.x.segs \o call.y.segs)
             /\ KindFollowsSegments(call.ret)
             /\ LenIsDisplayLen(call.ret)
             /\ chars = JoinedByDot(call.ret.segs)

\* a variable of several segments was joined with another of several segments
C23_Witness ==
    /\ call.kind = "join"
    /\ call.x.kind = "Segments" /\ call.y.kind = "Segments"
    /\ call.ret.segs = call.x.segs \o call.y.segs
    /\ Len(call.ret.segs) >= 5
    /\ VariableLen(call.ret) = Len(chars)

\* a single variable was joined with a single variable
C23_SingleSingle ==
    /\ call.kind = "join"
    /\ call.x.kind = "Single" /\ call.y.kind = "Single"
    /\ call.ret = Segments(<<call.x.segs[1], call.y.segs[1]>>)

\* a string of one segment was parsed to a Single
C23_ParsedSingle ==
    /\ call.kind = "from_str"
    /\ call.ret = Ok(Single(chars))

(***************************************************************************)
(* SpecLines: the tokenizer on templates of several lines, with line       *)
(* breaks around and inside the placeholders.                              *)
(***************************************************************************)
LineFragments ==
    { <<"x">>, <<"\n">>,
      Open \o <<"a">> \o Close,                        \* {{a}}
      Open \o <<"a", ".">> \o Close,                   \* {{a.}}
      Open \o <<"a", "\n">> \o Close,                  \* {{a\n}}
      Open \o <<"a", " ", "\n">> \o Close }            \* {{a \n}}

RECURSIVE ComposeLines(_)
ComposeLines(n) ==
    IF n = 0 THEN {<<>>}
    ELSE LET shorter == ComposeLines(n - 1) IN
         shorter \cup {t \o f : t \in shorter, f \in LineFragments}

LineTemplates == ComposeLines(MaxPieces)

\* a caller holding a Tokenize::new(chars), chars of several lines
InitLines ==
    /\ chars \in LineTemplates
    /\ ctx = EmptyMap
    /\ result = Idle
    /\ InitTokenizer
    /\ InitCalls

SpecLines == InitLines /\ [][Next]_vars

\* the 0-based line of the byte at offset h of s: the newlines before it
RECURSIVE LineOf(_, _)
LineOf(s, h) ==
    IF h = 0 THEN 0
    ELSE LineOf(s, h - 1) + (IF s[h] = "\n" THEN 1 ELSE 0)

\* the 0-based column of the byte at offset h of s: the bytes between it and
\* the start of its line
RECURSIVE ColOf(_, _)
ColOf(s, h) ==
    IF h = 0 \/ s[h] = "\n" THEN 0 ELSE ColOf(s, h - 1) + 1

(***************************************************************************)
(* C24.  After any sequence of next() calls the tokenizer's (row, col) is  *)
(* the line and column of its scan head, and so a parse error carries the  *)
(* line and column, within the whole template, of the offending byte: a    *)
(* byte of the placeholder at the head, on the head's line.                *)
(***************************************************************************)
\* C24: (row, col) is the 0-based line and column of the scan head after any calls of next, and an error carries the line and column of a byte of the placeholder at the head
C24_LocationsAreLineAndColumn ==
    /\ tk.row = LineOf(chars, tk.head)
    /\ tk.col = ColOf(chars, tk.head)
    /\ last.kind = "Err" =>
          LET offset == last.err.col - ColOf(chars, tk.head) IN
              /\ last.err.line = LineOf(chars, tk.head)
              /\ offset >= 2
              /\ tk.head + offset < Len(chars)
              /\ LineOf(chars, tk.head + offset) = last.err.line

(***************************************************************************)
(* SpecSegment: try_parse_variable_segment on byte buffers that hold       *)
(* identifier bytes, newlines and other terminators.                       *)
(***************************************************************************)
SegmentBytes == {"a", "\n", " ", ".", "}"}

RECURSIVE BuffersUpTo(_)
BuffersUpTo(n) ==
    IF n = 0 THEN {<<>>}
    ELSE LET shorter == BuffersUpTo(n - 1) IN
         shorter \cup {Append(s, b) : s \in shorter, b \in SegmentBytes}

SegmentBuffers == BuffersUpTo(MaxSegmentLen)

InitSegment ==
    /\ chars \in SegmentBuffers
    /\ ctx = EmptyMap
    /\ result = Idle
    /\ InitTokenizer
    /\ InitCalls

\* try_parse_variable_segment(chars)
SegmentCall ==
    /\ call.kind = "NoCall"
    /\ call' = [kind |-> "try_parse_variable_segment",
                ret |-> try_parse_variable_segment(chars)]
    /\ ncalls' = ncalls + 1
    /\ UNCHANGED <<chars, ctx, tk, last, tokens, spans, nones, output, result>>

NextSegment == SegmentCall

SpecSegment == InitSegment /\ [][NextSegment]_vars

\* the number of identifier bytes s starts with
RECURSIVE IdentifierPrefixLen(_)
IdentifierPrefixLen(s) ==
    IF s = <<>> \/ ~is_valid_identifier_ch(Head(s)) THEN 0
    ELSE 1 + IdentifierPrefixLen(Tail(s))

SegmentParsed == call.kind = "try_parse_variable_segment"

\* the bytes after the identifier bytes s starts with begin with a newline
NewlineEndsPrefix(s) ==
    LET n == IdentifierPrefixLen(s) IN n < Len(s) /\ s[n + 1] = "\n"

C25_NewlineAfterBytes ==
    /\ SegmentParsed
    /\ IdentifierPrefixLen(chars) = 2
    /\ call.ret = Err(Error(2, 0, "NewlineInVariableSegment"))

\* a buffer with a newline after another terminator gave its prefix
C25_PrefixBeforeTerminator ==
    /\ SegmentParsed
    /\ Len(chars) = 4
    /\ chars[3] = "}" /\ chars[4] = "\n"
    /\ call.ret = Ok(SubSeq(chars, 1, 2))

\* s is a dotted path, a '.' at (1-based) position d, one or more spaces and
\* a dotted path
HasSpaceAfterDotAt(s, d) ==
    /\ 1 < d /\ d + 2 <= Len(s)
    /\ s[d] = "."
    /\ s[d + 1] = " "
    /\ IsDottedPath(SubSeq(s, 1, d - 1))
    /\ \E q \in (d + 2)..Len(s) :
          /\ \A i \in (d + 1)..(q - 1) : s[i] = " "
          /\ IsDottedPath(SubSeq(s, q, Len(s)))

(***************************************************************************)
(* C26.  A space next to a dot separator is SpaceInPath: a path, a '.',    *)
(* one or more spaces and a further path fail to parse with the error kind *)
(* SpaceInPath, as a bare string and inside a placeholder.                 *)
(***************************************************************************)
\* C26: parsing segment(s), '.', spaces, segment(s) fails with the error kind SpaceInPath
C26_SpaceAfterDotIsSpaceInPath ==
    \A d \in 1..Len(chars) :
        HasSpaceAfterDotAt(chars, d) =>
            /\ ParsedBare =>
                  ~call.ret.ok /\ call.ret.err.ty = "SpaceInPath"
            /\ ParsedInBlock =>
                  call.ret.kind = "Err" /\ call.ret.err.ty = "SpaceInPath"

(***************************************************************************)
(* SpecDefine: define calls on a context, with the variables the public    *)
(* constructors give, those with a '.' inside a part included.             *)
(***************************************************************************)
DottedPart == <<"a", ".", "b">>

\* Variable::from_parts(["a", "a.b"]), (["a", "a.b", "a"]), (["a.b", "a"])
DottedPaths ==
    { from_parts(<<NameA, DottedPart>>).val,
      from_parts(<<NameA, DottedPart, NameA>>).val,
      from_parts(<<DottedPart, NameA>>).val }

DefinePaths == Paths \cup DottedPaths

\* a context built before, about to be defined into
InitDefine ==
    /\ chars = <<>>
    /\ ctx \in Contexts
    /\ result = Idle
    /\ InitTokenizer
    /\ InitCalls

NextDefine == \E var \in DefinePaths, value \in Values : DefineCall(var, value)

SpecDefine == InitDefine /\ [][NextDefine]_vars

\* the value is an object that holds, at any depth, a property whose name
\* has a '.'
RECURSIVE HoldsDottedName(_)
HoldsDottedName(value) ==
    /\ value.tag = "Object"
    /\ \E n \in DOMAIN value.values :
          Contains(n, ".") \/ HoldsDottedName(value.values[n])

(***************************************************************************)
(* C27.  No object holds a property name with a '.': add_property fails on *)
(* such a name, and whatever variables of the public constructors are      *)
(* defined, no object of the context tree has a dotted property name.      *)
(***************************************************************************)
\* C27: add_property fails on a dotted name and no sequence of define calls leaves an object of the context tree with a dotted property name
C27_NoDottedPropertyName ==
    /\ \A n \in DOMAIN ctx : ~HoldsDottedName(ctx[n])
    /\ (/\ call.kind = "define"
        /\ call.var.kind = "Segments"
        /\ Contains(call.var.segs[Len(call.var.segs)], "."))
          => call.panicked

\* the paths looked up: one to three segments of plain names, and the paths
\* with a dotted part
QueryPaths ==
    {PathOf(segs) : segs \in UNION {[1..n -> {NameA, NameB}] : n \in 1..3}}
        \cup DottedPaths

\* the sequence long starts with the sequence short
StartsWith(long, short) ==
    Len(short) <= Len(long) /\ SubSeq(long, 1, Len(short)) = short

\* neither sequence of segments starts with the other
Unrelated(p, q) == ~StartsWith(p.segs, q.segs) /\ ~StartsWith(q.segs, p.segs)

(***************************************************************************)
(* C29.  define(p, v) changes what get_value returns only for paths        *)
(* related to p: a path q of which p is no prefix and which is no prefix   *)
(* of p resolves after the call as it did before, for a single name p and  *)
(* for a path p of several segments, on every context.                     *)
(***************************************************************************)
\* C29: after define(p, v), get_value(q) is as before for every q such that neither of p and q is a prefix of the other
C29_DefineKeepsUnrelatedPaths ==
    call.kind = "define" =>
        \A q \in QueryPaths :
            Unrelated(call.var, q) =>
                get_value(ctx, q) = get_value(call.before, q)

\* a path of three segments was defined next to a bound path that shares its
\* first two segments, and that path resolves as before
C29_Witness ==
    /\ call.kind = "define"
    /\ ~call.panicked
    /\ Len(call.var.segs) = 3
    /\ ctx # call.before
    /\ \E q \in QueryPaths :
          /\ Unrelated(call.var, q)
          /\ Len(q.segs) = 3
          /\ q.segs[1] = call.var.segs[1] /\ q.segs[2] = call.var.segs[2]
          /\ get_value(call.before, q).some
          /\ get_value(ctx, q) = get_value(call.before, q)

\* a single name bound to an object was defined, and a bound top-level name
\* beside it resolves as before
C29_SingleOntoObject ==
    /\ call.kind = "define"
    /\ call.var.kind = "Single"
    /\ get_value(call.before, call.var).some
    /\ get_value(call.before, call.var).val.tag = "Object"
    /\ \E q \in QueryPaths :
          /\ Unrelated(call.var, q)
          /\ get_value(call.before, q).some
          /\ get_value(ctx, q) = get_value(call.before, q)

(***************************************************************************)
(* C28.  Tokenizing completes normally on every template: a call of next   *)
(* returns a token, an error or None and never aborts on an index outside  *)
(* the input or on an arithmetic overflow, and the calls that return a     *)
(* token or an error are bounded by the length of the input.               *)
(***************************************************************************)
\* C28: every call of Tokenize::next returns a token, an error or None without aborting, and the tokens returned before None are bounded by the input length
C28_TokenizingCompletes ==
    /\ last.kind \in {"NotCalled", "None", "Str", "Variable", "Err"}
    /\ Len(tokens) <= Len(chars) + 1

=============================================================================
